---- MODULE Spec2Model ----
(***************************************************************************)
(* FixIt AI: the session state machine of App (status, result, error,      *)
(* history, currentMedia, detectedItems), its event handlers, and the two  *)
(* asynchronous gateway calls (detectItems, analyzeMedia) whose outcomes   *)
(* arrive as separate steps.  An outstanding call keeps the values its     *)
(* handler closed over when it was started (React closure semantics).      *)
(* The two chats (ResultDisplay's repair chat, SupportChat) keep their own  *)
(* component state; ResultDisplay's state lives only while it is mounted.  *)
(***************************************************************************)
EXTENDS Integers, Sequences, FiniteSets, TLC

VARIABLES
    status,         \* AppStatus
    result,         \* FixItResponse | null
    error,          \* string | null
    history,        \* FixItResponse[], newest first
    isSidebarOpen,  \* boolean
    currentMedia,   \* MediaFile | null
    detectedItems,  \* DetectedItem[]
    calls,          \* gateway calls awaiting their outcome, in issue order
    now,            \* the latest reading of Date.now()
    chatHistory,    \* ResultDisplay: ChatMessage[] of the repair chat
    isChatLoading,  \* ResultDisplay: boolean
    chatCalls,      \* getChatResponse calls awaiting their outcome
    messages,       \* SupportChat: ChatMessage[]
    isLoading,      \* SupportChat: boolean
    supportCalls,   \* getSupportChatResponse calls awaiting their outcome
    created,        \* every resultWithMeta as it was built, oldest first
    response,       \* the external response the step consumed, if any
    overlays,       \* AnnotatedImage: the style of each rendered box
    formatted,      \* formatText: the elements rendered for a text
    lastOp          \* the handler or call outcome that produced this state

sessionVars == <<status, result, error, history, isSidebarOpen, currentMedia,
                 detectedItems, calls, now, created>>

repairChatVars == <<chatHistory, isChatLoading, chatCalls>>

supportChatVars == <<messages, isLoading, supportCalls>>

\* what the pure view functions rendered last
viewVars == <<overlays, formatted>>

vars == <<status, result, error, history, isSidebarOpen, currentMedia,
          detectedItems, calls, now, chatHistory, isChatLoading, chatCalls,
          messages, isLoading, supportCalls, created, response, overlays, formatted, lastOp>>

----------------------------------------------------------------------------
(* Bounds of the exploration *)

\* diagnoses per session: completed ones plus calls still under way
MaxHistory == 2
\* the largest reading of the clock
MaxClock == 1
\* length of a chat transcript at which the user stops sending
MaxTranscript == 2
\* repair-chat calls under way at which the user stops sending
MaxChatCalls == 2

----------------------------------------------------------------------------
(* Values *)

\* the null of result and currentMedia
Null == [null |-> TRUE]

\* the null of error (error is otherwise one of the two message strings)
NoError == "null"

AppStatus ==
    {"IDLE", "UPLOADED", "DETECTING", "SELECTING", "ANALYZING", "SUCCESS", "ERROR"}

\* the message set by the catch block of handleStartDetection
DetectionErrorMessage == "Failed to identify items in the image. Please try again."

\* the message set by the catch block of handleItemSelect
AnalysisErrorMessage == "Failed to generate repair guide. Please try again."

\* MediaFile values the capture component can hand over: two with a payload
\* and one whose base64 is missing/empty
MediaInputs ==
    { [base64 |-> "QUFB", fileType |-> "image/jpeg", previewUrl |-> "blob:a"],
      [base64 |-> "QkJC", fileType |-> "video/mp4",  previewUrl |-> "blob:b"],
      [base64 |-> "",     fileType |-> "image/png",  previewUrl |-> "blob:c"] }

Faucet == [id |-> "1", name |-> "Faucet", description |-> "dripping"]
Hinge  == [id |-> "2", name |-> "Hinge",  description |-> "loose"]

\* item lists a successful detectItems call can return
DetectionResponses == { <<>>, <<Faucet>>, <<Hinge, Faucet>> }

\* the fields RESPONSE_SCHEMA_REPAIR declares as required
RequiredFields ==
    {"title", "problemDescription", "rootCause", "safetyWarnings", "toolsNeeded",
     "steps", "visualGuide"}

\* a JSON body that carries every required field
FullDiagnosis ==
    [title |-> "Fix the faucet", problemDescription |-> "The faucet drips",
     rootCause |-> "Worn washer", safetyWarnings |-> <<"Shut off the water">>,
     toolsNeeded |-> <<"Wrench">>,
     steps |-> <<[step |-> 1, instruction |-> "Close the valve", detail |-> "under the sink"],
                 [step |-> 2, instruction |-> "Replace the washer", detail |-> "same size"]>>,
     visualGuide |-> "Look at the [Handle]"]

\* a JSON body that parses but lacks required fields
PartialDiagnosis == [title |-> "Tighten the hinge"]

\* a document in which the model also supplied id, timestamp and imageUrl
StampedDiagnosis ==
    [title |-> "Replace the washer", id |-> 1, timestamp |-> 9,
     imageUrl |-> "https://model.example/image.png"]

\* JSON bodies JSON.parse can hand to analyzeMedia's caller
AnalysisResponses == { [title |-> "Fix the faucet"], PartialDiagnosis }

\* response.text of the external service: undefined/empty, text that is not
\* JSON, or the text of a JSON document
EmptyText == [empty |-> TRUE]
Garbage == [garbage |-> TRUE]
JsonText(doc) == [json |-> doc]

\* an exchange with the external service: generateContent threw (network,
\* credential, non-2xx), or returned a response with this text
Threw == [threw |-> TRUE, text |-> EmptyText]
Returned(text) == [threw |-> FALSE, text |-> text]

\* what generateContent can do for a detectItems call
DetectionRawResponses ==
    {Threw, Returned(EmptyText), Returned(Garbage),
     Returned(JsonText([note |-> "no items field"]))}
        \cup {Returned(JsonText([items |-> l])) : l \in DetectionResponses}

\* what generateContent can do for an analyzeMedia call
AnalysisRawResponses ==
    {Threw, Returned(EmptyText), Returned(Garbage)}
        \cup {Returned(JsonText(r)) :
                  r \in {FullDiagnosis, PartialDiagnosis, StampedDiagnosis}}

\* what a chat's sendMessage returns as result.text
ChatReplyTexts == {"Use a wrench."}

\* what the user can have typed when sending
ChatInputs == {"How do I start?", "  "}

----------------------------------------------------------------------------
(* Model Gateway: the requests built by geminiService *)

DetectionPrompt == "Identify the distinct objects, appliances, or repair scenarios visible in this image. List them so the user can choose which one to fix. Provide 3-5 distinct items max."

GenericPrompt == "Analyze this and provide a repair guide with annotations."

\* focusContext of a call without a selected item (undefined)
NoFocus == ""

FocusedPrompt(focusContext) ==
    "Analyze the image focusing specifically on this item: \"" \o focusContext
        \o "\". Provide a detailed repair guide and annotations for this specific problem."

\* the request detectItems sends
DetectRequest(base64Data, mimeType) ==
    [data |-> base64Data, mimeType |-> mimeType, text |-> DetectionPrompt]

\* the request analyzeMedia sends: an empty or undefined focusContext is falsy
AnalyzeRequest(base64Data, mimeType, focusContext) ==
    [data |-> base64Data, mimeType |-> mimeType,
     text |-> IF focusContext # NoFocus THEN FocusedPrompt(focusContext)
              ELSE GenericPrompt]

\* FocusContext with the item's null check forgotten
FocusContext_NoNullCheck(item) ==
    IF item = Null THEN "undefined - undefined"
    ELSE item.name \o " - " \o item.description

\* FocusContext made of the item's name alone
FocusContext_NameOnly(item) ==
    IF item = Null THEN NoFocus ELSE item.name

\* item ? `${item.name} - ${item.description}` : undefined
FocusContext(item) ==
    IF item = Null THEN NoFocus ELSE item.name \o " - " \o item.description

\* the outcome of a gateway function: the promise resolves with value or rejects
Resolve(value) == [ok |-> TRUE, value |-> value]
Reject == [ok |-> FALSE, value |-> <<>>]

\* JSON.parse throws on text that is not JSON
Parseable(text) == "json" \in DOMAIN text

\* response.text || '{ "items": [] }'
DefaultDetectionText == JsonText([items |-> <<>>])

\* mutant of detectItems: no check of the key, the missing response is
\* read as the default text
detectItems_NoKeyCheck(raw) ==
    IF raw.threw /\ "sent" \notin DOMAIN raw THEN Reject
    ELSE LET text == IF raw.text = EmptyText THEN DefaultDetectionText ELSE raw.text
         IN  IF ~Parseable(text) THEN Reject
             ELSE IF "items" \in DOMAIN text.json THEN Resolve(text.json.items)
             ELSE Resolve(<<>>)

\* detectItems after the exchange: JSON.parse(response.text || '{ "items": [] }'),
\* then parsed.items || []; every throw is rethrown by the catch block
detectItems(raw) ==
    IF raw.threw THEN Reject
    ELSE LET text == IF raw.text = EmptyText THEN DefaultDetectionText ELSE raw.text
         IN  IF ~Parseable(text) THEN Reject
             ELSE IF "items" \in DOMAIN text.json THEN Resolve(text.json.items)
             ELSE Resolve(<<>>)

\* analyzeMedia after the exchange: throws on an empty text, JSON.parse throws
\* on text that is not JSON, the parsed value is returned as it is
analyzeMedia(raw) ==
    IF raw.threw THEN Reject
    ELSE IF raw.text = EmptyText THEN Reject
    ELSE IF ~Parseable(raw.text) THEN Reject
    ELSE Resolve(raw.text.json)

\* result.text || "I couldn't generate a response."
RepairReplyText(text) == IF text = "" THEN "I couldn't generate a response." ELSE text

\* result.text || "I'm having trouble connecting right now. Please try again later."
SupportReplyText(text) ==
    IF text = "" THEN "I'm having trouble connecting right now. Please try again later."
    ELSE text

\* the message handleSendChat appends in its catch block
RepairApology == "Sorry, I encountered an error answering that."

\* the message handleSend appends in its catch block
SupportApology == "Sorry, I'm having trouble connecting. Please check your internet or try again."

\* the initial message of SupportChat
WelcomeMessage ==
    [role |-> "model", text |-> "Hi! I can help you use the FixIt AI app. What can I do for you?"]

\* !input.trim()
Blank(text) == text \in {"", " ", "  "}

----------------------------------------------------------------------------
(* Helpers *)

Remove(s, i) == [k \in 1..(Len(s) - 1) |-> IF k < i THEN s[k] ELSE s[k + 1]]

Items(s) == {s[k] : k \in 1..Len(s)}

\* !media?.base64
HasPayload(media) == media # Null /\ media.base64 # ""

\* crypto.randomUUID(): a value no earlier result carries
FreshId(h) == Len(h) + 1

\* resultWithMeta with the spread last: { id, timestamp, imageUrl, ...analysisResult }
WithMeta_ResponseWins(analysisResult, id, timestamp, imageUrl) ==
    [f \in (DOMAIN analysisResult) \cup {"id", "timestamp", "imageUrl"} |->
        IF f \in DOMAIN analysisResult THEN analysisResult[f]
        ELSE IF f = "id" THEN id
        ELSE IF f = "timestamp" THEN timestamp
        ELSE imageUrl]

\* { ...analysisResult, id, timestamp, imageUrl }
WithMeta(analysisResult, id, timestamp, imageUrl) ==
    [f \in (DOMAIN analysisResult) \cup {"id", "timestamp", "imageUrl"} |->
        IF f = "id" THEN id
        ELSE IF f = "timestamp" THEN timestamp
        ELSE IF f = "imageUrl" THEN imageUrl
        ELSE analysisResult[f]]

\* a call started by a handler; media is the currentMedia the handler closed over
DetectCall(media) ==
    [kind |-> "detect", media |-> media, origin |-> "confirm",
     request |-> DetectRequest(media.base64, media.fileType),
     resetSince |-> FALSE]

AnalyzeCall(media, item, origin) ==
    [kind |-> "analyze", media |-> media, origin |-> origin,
     request |-> AnalyzeRequest(media.base64, media.fileType, FocusContext(item)),
     resetSince |-> FALSE]

\* bookkeeping: the calls that were outstanding when the user reset
MarkReset(cs) == [k \in 1..Len(cs) |-> [cs[k] EXCEPT !.resetSince = TRUE]]

Op(name, call, arg) == [op |-> name, call |-> call, arg |-> arg]

\* {status === AppStatus.SUCCESS && result && <ResultDisplay .../>}
Mounted(st, res) == st = "SUCCESS" /\ res # Null

\* the calls a ResultDisplay instance leaves behind when it unmounts: they
\* stay in flight, but the setters of their continuation belong to the
\* discarded instance, so only the fact that they are outstanding is kept
Orphaned(cs) ==
    [k \in 1..Len(cs) |-> [data |-> 0, history |-> <<>>, message |-> "", live |-> FALSE]]

\* ResultDisplay with the effect on [data.id] left out
ResultDisplayEffect_NoReset ==
    IF Mounted(status, result) /\ Mounted(status', result')
    THEN UNCHANGED <<chatHistory, isChatLoading, chatCalls>>
    ELSE /\ chatHistory' = <<>>
         /\ isChatLoading' = FALSE
         /\ chatCalls' = Orphaned(chatCalls)

\* what an App state update does to ResultDisplay: it stays mounted (the
\* effect on [data.id] empties the transcript when the id changed), or it is
\* unmounted and a later mount starts from the useState initial values
ResultDisplayEffect ==
    IF Mounted(status, result) /\ Mounted(status', result')
    THEN IF result'.id = result.id
         THEN UNCHANGED <<chatHistory, isChatLoading, chatCalls>>
         ELSE /\ chatHistory' = <<>>
              /\ UNCHANGED <<isChatLoading, chatCalls>>
    ELSE /\ chatHistory' = <<>>
         /\ isChatLoading' = FALSE
         /\ chatCalls' = Orphaned(chatCalls)

\* mutant of Render: SupportChat rendered inside the main view, so that it
\* is mounted afresh whenever the view changes
Render_RemountsSupport ==
    /\ ResultDisplayEffect
    /\ messages' = IF status' # status THEN <<WelcomeMessage>> ELSE messages
    /\ UNCHANGED <<isLoading, supportCalls>>

\* App re-renders after a state update: ResultDisplay follows status and
\* result, SupportChat is mounted at the root and keeps its state
Render ==
    /\ ResultDisplayEffect
    /\ UNCHANGED <<messages, isLoading, supportCalls>>

----------------------------------------------------------------------------
Init ==
    /\ status = "IDLE"
    /\ result = Null
    /\ error = NoError
    /\ history = <<>>
    /\ isSidebarOpen = FALSE
    /\ currentMedia = Null
    /\ detectedItems = <<>>
    /\ calls = <<>>
    /\ now = 0
    /\ chatHistory = <<>>
    /\ isChatLoading = FALSE
    /\ chatCalls = <<>>
    /\ messages = <<WelcomeMessage>>
    /\ isLoading = FALSE
    /\ supportCalls = <<>>
    /\ created = <<>>
    /\ response = Null
    /\ overlays = <<>>
    /\ formatted = Null
    /\ lastOp = Op("init", Null, Null)

----------------------------------------------------------------------------
(* User-triggered handlers *)

\* handleFileSelect without the if (media.base64) test
handleFileSelect_NoGuard(media) ==
    /\ status \in {"IDLE", "UPLOADED"}
    /\ currentMedia' = media
    /\ status' = "UPLOADED"
    /\ error' = NoError
    /\ lastOp' = Op("handleFileSelect", Null, media)
    /\ UNCHANGED viewVars
    /\ UNCHANGED <<result, history, isSidebarOpen, detectedItems, calls, now>>
    /\ response' = Null
    /\ UNCHANGED created
    /\ Render

\* FileUpload is rendered in IDLE and UPLOADED only
handleFileSelect(media) ==
    /\ status \in {"IDLE", "UPLOADED"}
    /\ IF ~HasPayload(media)
       THEN UNCHANGED <<currentMedia, status, error>>
       ELSE /\ currentMedia' = media
            /\ status' = "UPLOADED"
            /\ error' = NoError
    /\ lastOp' = Op("handleFileSelect", Null, media)
    /\ UNCHANGED viewVars
    /\ UNCHANGED <<result, history, isSidebarOpen, detectedItems, calls, now>>
    /\ response' = Null
    /\ UNCHANGED created
    /\ Render

\* the "Analyze Image" button is rendered in UPLOADED only
handleStartDetection ==
    /\ status = "UPLOADED"
    /\ Len(history) + Len(calls) < MaxHistory
    /\ IF ~HasPayload(currentMedia)
       THEN UNCHANGED <<status, error, calls>>
       ELSE /\ status' = "DETECTING"
            /\ error' = NoError
            /\ calls' = Append(calls, DetectCall(currentMedia))
    /\ lastOp' = Op("handleStartDetection", Null, Null)
    /\ UNCHANGED viewVars
    /\ UNCHANGED <<result, history, isSidebarOpen, currentMedia, detectedItems, now>>
    /\ response' = Null
    /\ UNCHANGED created
    /\ Render

\* the synchronous part of handleItemSelect, run with the media of the
\* caller's closure: sets ANALYZING and issues the analyzeMedia call
ItemSelectStart(media, item, origin, pending) ==
    IF ~HasPayload(media)
    THEN UNCHANGED <<status>> /\ calls' = pending
    ELSE /\ status' = "ANALYZING"
         /\ calls' = Append(pending, AnalyzeCall(media, item, origin))

\* a button of ItemSelector, rendered when status = SELECTING and currentMedia
handleItemSelect(item) ==
    /\ status = "SELECTING"
    /\ currentMedia # Null
    /\ item \in Items(detectedItems)
    /\ Len(history) + Len(calls) < MaxHistory
    /\ ItemSelectStart(currentMedia, item, "select", calls)
    /\ lastOp' = Op("handleItemSelect", Null, item)
    /\ UNCHANGED viewVars
    /\ UNCHANGED <<result, error, history, isSidebarOpen, currentMedia,
                   detectedItems, now>>
    /\ response' = Null
    /\ UNCHANGED created
    /\ Render

\* handleReset without setDetectedItems([])
handleReset_KeepItems ==
    /\ status' = "IDLE"
    /\ result' = Null
    /\ error' = NoError
    /\ currentMedia' = Null
    /\ calls' = MarkReset(calls)
    /\ lastOp' = Op("handleReset", Null, Null)
    /\ UNCHANGED viewVars
    /\ UNCHANGED <<history, isSidebarOpen, detectedItems, now>>
    /\ response' = Null
    /\ UNCHANGED created
    /\ Render

\* header logo, "New Analysis", ItemSelector cancel, "Try Again", ResultDisplay
handleReset ==
    /\ status' = "IDLE"
    /\ result' = Null
    /\ error' = NoError
    /\ currentMedia' = Null
    /\ detectedItems' = <<>>
    /\ calls' = MarkReset(calls)
    /\ lastOp' = Op("handleReset", Null, Null)
    /\ UNCHANGED viewVars
    /\ UNCHANGED <<history, isSidebarOpen, now>>
    /\ response' = Null
    /\ UNCHANGED created
    /\ Render

\* mutant of handleClearFile: the clear control is offered in every status
handleClearFile_AnyStatus ==
    /\ status' = "IDLE"
    /\ currentMedia' = Null
    /\ detectedItems' = <<>>
    /\ lastOp' = Op("handleClearFile", Null, Null)
    /\ UNCHANGED viewVars
    /\ UNCHANGED <<result, error, history, isSidebarOpen, calls, now>>
    /\ response' = Null
    /\ UNCHANGED created
    /\ Render

\* FileUpload's onClear, rendered in IDLE and UPLOADED only
handleClearFile ==
    /\ status \in {"IDLE", "UPLOADED"}
    /\ status' = "IDLE"
    /\ currentMedia' = Null
    /\ detectedItems' = <<>>
    /\ lastOp' = Op("handleClearFile", Null, Null)
    /\ UNCHANGED viewVars
    /\ UNCHANGED <<result, error, history, isSidebarOpen, calls, now>>
    /\ response' = Null
    /\ UNCHANGED created
    /\ Render

\* handleSelectAnother always handed to ResultDisplay, whatever detectedItems
handleSelectAnother_Unguarded ==
    /\ status = "SUCCESS"
    /\ result # Null
    /\ result' = Null
    /\ status' = "SELECTING"
    /\ lastOp' = Op("handleSelectAnother", Null, Null)
    /\ UNCHANGED viewVars
    /\ UNCHANGED <<error, history, isSidebarOpen, currentMedia, detectedItems,
                   calls, now>>
    /\ response' = Null
    /\ UNCHANGED created
    /\ Render

\* handleSelectAnother re-running the detection instead of reusing the items
handleSelectAnother_Redetect ==
    /\ status = "SUCCESS"
    /\ result # Null
    /\ Len(detectedItems) > 0
    /\ result' = Null
    /\ status' = "SELECTING"
    /\ detectedItems' = <<>>
    /\ lastOp' = Op("handleSelectAnother", Null, Null)
    /\ UNCHANGED viewVars
    /\ UNCHANGED <<error, history, isSidebarOpen, currentMedia, calls, now>>
    /\ response' = Null
    /\ UNCHANGED created
    /\ Render

\* mutant of handleSelectAnother: setResult(null) without the setStatus
handleSelectAnother_KeepsStatus ==
    /\ status = "SUCCESS"
    /\ result # Null
    /\ Len(detectedItems) > 0
    /\ result' = Null
    /\ lastOp' = Op("handleSelectAnother", Null, Null)
    /\ UNCHANGED viewVars
    /\ UNCHANGED <<status, error, history, isSidebarOpen, currentMedia, detectedItems,
                   calls, now>>
    /\ response' = Null
    /\ UNCHANGED created
    /\ Render

\* ResultDisplay is rendered when status = SUCCESS and result; it receives
\* onSelectAnother only when detectedItems.length > 0
handleSelectAnother ==
    /\ status = "SUCCESS"
    /\ result # Null
    /\ Len(detectedItems) > 0
    /\ result' = Null
    /\ status' = "SELECTING"
    /\ lastOp' = Op("handleSelectAnother", Null, Null)
    /\ UNCHANGED viewVars
    /\ UNCHANGED <<error, history, isSidebarOpen, currentMedia, detectedItems,
                   calls, now>>
    /\ response' = Null
    /\ UNCHANGED created
    /\ Render

\* handleHistorySelect that also moves the chosen entry to the head of history
handleHistorySelect_MovesToFront(item) ==
    /\ isSidebarOpen
    /\ item \in Items(history)
    /\ result' = item
    /\ status' = "SUCCESS"
    /\ history' = <<item>> \o SelectSeq(history, LAMBDA h : h # item)
    /\ isSidebarOpen' = FALSE
    /\ lastOp' = Op("handleHistorySelect", Null, item)
    /\ UNCHANGED viewVars
    /\ UNCHANGED <<error, currentMedia, detectedItems, calls, now>>
    /\ response' = Null
    /\ UNCHANGED created
    /\ Render

\* handleHistorySelect that presents the entry with the current time
handleHistorySelect_Restamps(item) ==
    /\ isSidebarOpen
    /\ item \in Items(history)
    /\ result' = [item EXCEPT !.timestamp = now]
    /\ status' = "SUCCESS"
    /\ isSidebarOpen' = FALSE
    /\ lastOp' = Op("handleHistorySelect", Null, item)
    /\ UNCHANGED viewVars
    /\ UNCHANGED <<error, history, currentMedia, detectedItems, calls, now>>
    /\ response' = Null
    /\ UNCHANGED created
    /\ Render

\* handleHistorySelect that also asks for a new diagnosis of the captured media
handleHistorySelect_Reanalyzes(item) ==
    /\ isSidebarOpen
    /\ item \in Items(history)
    /\ result' = item
    /\ status' = "SUCCESS"
    /\ isSidebarOpen' = FALSE
    /\ calls' = IF HasPayload(currentMedia)
                THEN Append(calls, AnalyzeCall(currentMedia, Null, "select"))
                ELSE calls
    /\ lastOp' = Op("handleHistorySelect", Null, item)
    /\ UNCHANGED viewVars
    /\ UNCHANGED <<error, history, currentMedia, detectedItems, now>>
    /\ response' = Null
    /\ UNCHANGED created
    /\ Render

\* an entry button of the open HistorySidebar
handleHistorySelect(item) ==
    /\ isSidebarOpen
    /\ item \in Items(history)
    /\ result' = item
    /\ status' = "SUCCESS"
    /\ isSidebarOpen' = FALSE
    /\ lastOp' = Op("handleHistorySelect", Null, item)
    /\ UNCHANGED viewVars
    /\ UNCHANGED <<error, history, currentMedia, detectedItems, calls, now>>
    /\ response' = Null
    /\ UNCHANGED created
    /\ Render

OpenSidebar ==
    /\ ~isSidebarOpen
    /\ isSidebarOpen' = TRUE
    /\ lastOp' = Op("OpenSidebar", Null, Null)
    /\ UNCHANGED viewVars
    /\ UNCHANGED <<status, result, error, history, currentMedia, detectedItems,
                   calls, now>>
    /\ response' = Null
    /\ UNCHANGED created
    /\ Render

CloseSidebar ==
    /\ isSidebarOpen
    /\ isSidebarOpen' = FALSE
    /\ lastOp' = Op("CloseSidebar", Null, Null)
    /\ UNCHANGED viewVars
    /\ UNCHANGED <<status, result, error, history, currentMedia, detectedItems,
                   calls, now>>
    /\ response' = Null
    /\ UNCHANGED created
    /\ Render

----------------------------------------------------------------------------
(* Outcomes of the gateway calls: the code after each await *)

\* the try block of handleStartDetection without the fallback: an empty
\* list is dropped
DetectionResolved_NoFallback(i, items) ==
    /\ i \in 1..Len(calls)
    /\ calls[i].kind = "detect"
    /\ IF Len(items) > 0
       THEN /\ detectedItems' = items
            /\ status' = "SELECTING"
       ELSE UNCHANGED <<detectedItems, status>>
    /\ calls' = Remove(calls, i)
    /\ lastOp' = Op("DetectionResolved", calls[i], [items |-> items])
    /\ UNCHANGED viewVars
    /\ UNCHANGED <<result, error, history, isSidebarOpen, currentMedia, now>>
    /\ UNCHANGED created
    /\ Render

\* detectItems resolved with items: the rest of handleStartDetection's try
DetectionResolved(i, items) ==
    /\ i \in 1..Len(calls)
    /\ calls[i].kind = "detect"
    /\ IF Len(items) > 0
       THEN /\ detectedItems' = items
            /\ status' = "SELECTING"
            /\ calls' = Remove(calls, i)
       ELSE /\ ItemSelectStart(calls[i].media, Null, "fallback", Remove(calls, i))
            /\ UNCHANGED detectedItems
    /\ lastOp' = Op("DetectionResolved", calls[i], [items |-> items])
    /\ UNCHANGED viewVars
    /\ UNCHANGED <<result, error, history, isSidebarOpen, currentMedia, now>>
    /\ UNCHANGED created
    /\ Render

\* the catch block of handleStartDetection with the other handler's message
DetectionRejected_WrongMessage(i) ==
    /\ i \in 1..Len(calls)
    /\ calls[i].kind = "detect"
    /\ status' = "ERROR"
    /\ error' = AnalysisErrorMessage
    /\ calls' = Remove(calls, i)
    /\ lastOp' = Op("DetectionRejected", calls[i], Null)
    /\ UNCHANGED viewVars
    /\ UNCHANGED <<result, history, isSidebarOpen, currentMedia, detectedItems, now>>
    /\ UNCHANGED created
    /\ Render

\* detectItems rejected: the catch block of handleStartDetection
DetectionRejected(i) ==
    /\ i \in 1..Len(calls)
    /\ calls[i].kind = "detect"
    /\ status' = "ERROR"
    /\ error' = DetectionErrorMessage
    /\ calls' = Remove(calls, i)
    /\ lastOp' = Op("DetectionRejected", calls[i], Null)
    /\ UNCHANGED viewVars
    /\ UNCHANGED <<result, history, isSidebarOpen, currentMedia, detectedItems, now>>
    /\ UNCHANGED created
    /\ Render

\* handleItemSelect's try with the new result appended instead of prepended
AnalysisResolved_Appends(i, analysisResult, timestamp) ==
    /\ i \in 1..Len(calls)
    /\ calls[i].kind = "analyze"
    /\ timestamp \in now..MaxClock
    /\ LET resultWithMeta ==
               WithMeta(analysisResult, FreshId(history), timestamp,
                        calls[i].media.previewUrl)
       IN  /\ result' = resultWithMeta
           /\ history' = history \o <<resultWithMeta>>
           /\ created' = Append(created, resultWithMeta)
           /\ status' = "SUCCESS"
           /\ lastOp' = Op("AnalysisResolved", calls[i], analysisResult)
           /\ UNCHANGED viewVars
    /\ now' = timestamp
    /\ calls' = Remove(calls, i)
    /\ UNCHANGED <<error, isSidebarOpen, currentMedia, detectedItems>>
    /\ Render

\* the try block of handleItemSelect with setHistory(prev => [resultWithMeta])
AnalysisResolved_Replaces(i, analysisResult, timestamp) ==
    /\ i \in 1..Len(calls)
    /\ calls[i].kind = "analyze"
    /\ timestamp \in now..MaxClock
    /\ LET resultWithMeta ==
               WithMeta(analysisResult, FreshId(history), timestamp,
                        calls[i].media.previewUrl)
       IN  /\ result' = resultWithMeta
           /\ history' = <<resultWithMeta>>
           /\ created' = Append(created, resultWithMeta)
           /\ status' = "SUCCESS"
           /\ lastOp' = Op("AnalysisResolved", calls[i], analysisResult)
           /\ UNCHANGED viewVars
    /\ now' = timestamp
    /\ calls' = Remove(calls, i)
    /\ UNCHANGED <<error, isSidebarOpen, currentMedia, detectedItems>>
    /\ Render

\* analyzeMedia resolved: the rest of handleItemSelect's try; Date.now() reads
\* a timestamp no earlier than the previous reading
AnalysisResolved(i, analysisResult, timestamp) ==
    /\ i \in 1..Len(calls)
    /\ calls[i].kind = "analyze"
    /\ timestamp \in now..MaxClock
    /\ LET resultWithMeta ==
               WithMeta(analysisResult, FreshId(history), timestamp,
                        calls[i].media.previewUrl)
       IN  /\ result' = resultWithMeta
           /\ history' = <<resultWithMeta>> \o history
           /\ created' = Append(created, resultWithMeta)
           /\ status' = "SUCCESS"
           /\ lastOp' = Op("AnalysisResolved", calls[i], analysisResult)
           /\ UNCHANGED viewVars
    /\ now' = timestamp
    /\ calls' = Remove(calls, i)
    /\ UNCHANGED <<error, isSidebarOpen, currentMedia, detectedItems>>
    /\ Render

\* a rejection of the fallback's analyzeMedia propagating into the catch block
\* of handleStartDetection (as if handleItemSelect(null) were awaited and rethrew)
AnalysisRejected_FallbackRethrows(i) ==
    /\ i \in 1..Len(calls)
    /\ calls[i].kind = "analyze"
    /\ status' = "ERROR"
    /\ error' = IF calls[i].origin = "fallback" THEN DetectionErrorMessage
                ELSE AnalysisErrorMessage
    /\ calls' = Remove(calls, i)
    /\ lastOp' = Op("AnalysisRejected", calls[i], Null)
    /\ UNCHANGED viewVars
    /\ UNCHANGED <<result, history, isSidebarOpen, currentMedia, detectedItems, now>>
    /\ UNCHANGED created
    /\ Render

\* analyzeMedia rejected: the catch block of handleItemSelect
AnalysisRejected(i) ==
    /\ i \in 1..Len(calls)
    /\ calls[i].kind = "analyze"
    /\ status' = "ERROR"
    /\ error' = AnalysisErrorMessage
    /\ calls' = Remove(calls, i)
    /\ lastOp' = Op("AnalysisRejected", calls[i], Null)
    /\ UNCHANGED viewVars
    /\ UNCHANGED <<result, history, isSidebarOpen, currentMedia, detectedItems, now>>
    /\ UNCHANGED created
    /\ Render

----------------------------------------------------------------------------
(* The gateway functions settle: geminiService turns the exchange into a     *)
(* resolved or rejected promise, and the awaiting handler continues          *)

\* detectItems returns or throws into handleStartDetection
detectItemsSettles(i, raw) ==
    /\ response' = raw
    /\ IF detectItems(raw).ok
       THEN DetectionResolved(i, detectItems(raw).value)
       ELSE DetectionRejected(i)

\* analyzeMedia returns or throws into handleItemSelect
analyzeMediaSettles(i, raw, timestamp) ==
    /\ response' = raw
    /\ IF analyzeMedia(raw).ok
       THEN AnalysisResolved(i, analyzeMedia(raw).value, timestamp)
       ELSE /\ timestamp = now
            /\ AnalysisRejected(i)

----------------------------------------------------------------------------
(* The repair chat of ResultDisplay *)

\* a getChatResponse call: currentContext, the history argument (the
\* chatHistory of the sending render) and the new message
ChatCall(data, transcript, text) ==
    [data |-> data, history |-> transcript, message |-> text, live |-> TRUE]

\* the send button / Enter key of the mounted ResultDisplay
handleSendChat(text) ==
    /\ Mounted(status, result)
    /\ Len(chatHistory) < MaxTranscript
    /\ Len(chatCalls) < MaxChatCalls
    /\ IF Blank(text) \/ isChatLoading
       THEN UNCHANGED <<chatHistory, isChatLoading, chatCalls>>
       ELSE /\ chatHistory' = Append(chatHistory, [role |-> "user", text |-> text])
            /\ isChatLoading' = TRUE
            /\ chatCalls' = Append(chatCalls, ChatCall(result.id, chatHistory, text))
    /\ lastOp' = Op("handleSendChat", Null, text)
    /\ UNCHANGED viewVars
    /\ response' = Null
    /\ UNCHANGED sessionVars
    /\ UNCHANGED supportChatVars

\* what the continuation of handleSendChat does with its message: the
\* setters of an unmounted instance change nothing
ChatSettledOn(j, name, text, raw) ==
    /\ j \in 1..Len(chatCalls)
    /\ IF chatCalls[j].live
       THEN /\ chatHistory' = Append(chatHistory, [role |-> "model", text |-> text])
            /\ isChatLoading' = FALSE
       ELSE UNCHANGED <<chatHistory, isChatLoading>>
    /\ chatCalls' = Remove(chatCalls, j)
    /\ lastOp' = Op(name, chatCalls[j], text)
    /\ UNCHANGED viewVars
    /\ response' = raw
    /\ UNCHANGED sessionVars
    /\ UNCHANGED supportChatVars

\* the same with the exchange left out of the account
ChatSettled(j, name, text) == ChatSettledOn(j, name, text, Null)

\* getChatResponse resolved: try, then finally
ChatResolved(j, text) == ChatSettled(j, "ChatResolved", RepairReplyText(text))

\* getChatResponse rejected: catch, then finally
ChatRejected(j) == ChatSettled(j, "ChatRejected", RepairApology)

----------------------------------------------------------------------------
(* SupportChat *)

\* a getSupportChatResponse call: the history argument and the new message
SupportCall(transcript, text) == [history |-> transcript, message |-> text]

\* handleSend that also waits for the repair chat's reply
handleSend_SharedLoading(text) ==
    /\ Len(messages) <= MaxTranscript
    /\ IF Blank(text) \/ isLoading \/ isChatLoading
       THEN UNCHANGED <<messages, isLoading, supportCalls>>
       ELSE /\ messages' = Append(messages, [role |-> "user", text |-> text])
            /\ isLoading' = TRUE
            /\ supportCalls' = Append(supportCalls, SupportCall(messages, text))
    /\ lastOp' = Op("handleSend", Null, text)
    /\ UNCHANGED viewVars
    /\ response' = Null
    /\ UNCHANGED sessionVars
    /\ UNCHANGED repairChatVars

\* the send button / Enter key of SupportChat
handleSend(text) ==
    /\ Len(messages) <= MaxTranscript
    /\ IF Blank(text) \/ isLoading
       THEN UNCHANGED <<messages, isLoading, supportCalls>>
       ELSE /\ messages' = Append(messages, [role |-> "user", text |-> text])
            /\ isLoading' = TRUE
            /\ supportCalls' = Append(supportCalls, SupportCall(messages, text))
    /\ lastOp' = Op("handleSend", Null, text)
    /\ UNCHANGED viewVars
    /\ response' = Null
    /\ UNCHANGED sessionVars
    /\ UNCHANGED repairChatVars

\* the continuation of handleSend appends its message and clears the flag
SupportSettledOn(j, name, text, raw) ==
    /\ j \in 1..Len(supportCalls)
    /\ messages' = Append(messages, [role |-> "model", text |-> text])
    /\ isLoading' = FALSE
    /\ supportCalls' = Remove(supportCalls, j)
    /\ lastOp' = Op(name, supportCalls[j], text)
    /\ UNCHANGED viewVars
    /\ response' = raw
    /\ UNCHANGED sessionVars
    /\ UNCHANGED repairChatVars

\* the same with the exchange left out of the account
SupportSettled(j, name, text) == SupportSettledOn(j, name, text, Null)

\* getSupportChatResponse resolved: try, then finally
SupportResolved(j, text) == SupportSettled(j, "SupportResolved", SupportReplyText(text))

\* getSupportChatResponse rejected: catch, then finally
SupportRejected(j) == SupportSettled(j, "SupportRejected", SupportApology)

----------------------------------------------------------------------------
\* the session: capture, detection, selection, diagnosis, history
Next ==
    \/ \E media \in MediaInputs : handleFileSelect(media)
    \/ handleStartDetection
    \/ \E item \in Items(detectedItems) : handleItemSelect(item)
    \/ handleReset
    \/ handleClearFile
    \/ handleSelectAnother
    \/ \E item \in Items(history) : handleHistorySelect(item)
    \/ OpenSidebar
    \/ CloseSidebar
    \/ \E i \in 1..Len(calls), items \in DetectionResponses :
           DetectionResolved(i, items) /\ response' = Null
    \/ \E i \in 1..Len(calls) : DetectionRejected(i) /\ response' = Null
    \/ \E i \in 1..Len(calls), r \in AnalysisResponses, t \in now..MaxClock :
           AnalysisResolved(i, r, t) /\ response' = Null
    \/ \E i \in 1..Len(calls) : AnalysisRejected(i) /\ response' = Null

Spec == Init /\ [][Next]_vars

----------------------------------------------------------------------------
(* The session with the exchanges of geminiService spelled out: what        *)
(* generateContent returns or throws, and what detectItems and analyzeMedia *)
(* make of it.  One media with a payload and the one without; the clock     *)
(* stands still.                                                            *)

GatewayMediaInputs == {media \in MediaInputs : media.fileType # "video/mp4"}

GatewayNext ==
    \/ \E media \in GatewayMediaInputs : handleFileSelect(media)
    \/ handleStartDetection
    \/ \E item \in Items(detectedItems) : handleItemSelect(item)
    \/ handleReset
    \/ handleClearFile
    \/ handleSelectAnother
    \/ \E item \in Items(history) : handleHistorySelect(item)
    \/ OpenSidebar
    \/ CloseSidebar
    \/ \E i \in 1..Len(calls), raw \in DetectionRawResponses : detectItemsSettles(i, raw)
    \/ \E i \in 1..Len(calls), raw \in AnalysisRawResponses :
           analyzeMediaSettles(i, raw, now)

GatewaySpec == Init /\ [][GatewayNext]_vars

\* some outstanding call of the session settles
CallSettles ==
    \/ \E i \in 1..Len(calls), raw \in DetectionRawResponses : detectItemsSettles(i, raw)
    \/ \E i \in 1..Len(calls), raw \in AnalysisRawResponses : analyzeMediaSettles(i, raw, now)

\* the session of GatewaySpec when every call that was made settles
FairGatewaySpec == Init /\ [][GatewayNext]_vars /\ WF_calls(CallSettles)

----------------------------------------------------------------------------
(* The session together with the two chats.  The session's inputs are one   *)
(* media, detections that throw or find nothing or one item, and diagnosis  *)
(* exchanges that throw or return a full diagnosis; the user confirms a     *)
(* detection only while no call of the session is outstanding.              *)

ChatMedia == [base64 |-> "QUFB", fileType |-> "image/jpeg", previewUrl |-> "blob:a"]

ChatDetectionRawResponses ==
    {Threw, Returned(JsonText([items |-> <<>>])), Returned(JsonText([items |-> <<Faucet>>]))}

ChatAnalysisRawResponses == {Threw, Returned(JsonText(FullDiagnosis))}

ChatNext ==
    \/ handleFileSelect(ChatMedia)
    \/ calls = <<>> /\ handleStartDetection
    \/ \E item \in Items(detectedItems) : handleItemSelect(item)
    \/ handleReset
    \/ handleClearFile
    \/ handleSelectAnother
    \/ \E item \in Items(history) : handleHistorySelect(item)
    \/ OpenSidebar
    \/ CloseSidebar
    \/ \E i \in 1..Len(calls), raw \in ChatDetectionRawResponses : detectItemsSettles(i, raw)
    \/ \E i \in 1..Len(calls), raw \in ChatAnalysisRawResponses :
           analyzeMediaSettles(i, raw, now)
    \/ \E text \in ChatInputs : handleSendChat(text)
    \/ \E j \in 1..Len(chatCalls), text \in ChatReplyTexts : ChatResolved(j, text)
    \/ \E j \in 1..Len(chatCalls) : ChatRejected(j)
    \/ \E text \in ChatInputs : handleSend(text)
    \/ \E j \in 1..Len(supportCalls), text \in ChatReplyTexts : SupportResolved(j, text)
    \/ \E j \in 1..Len(supportCalls) : SupportRejected(j)

ChatSpec == Init /\ [][ChatNext]_vars

----------------------------------------------------------------------------
(* The session and the chats when process.env.API_KEY may be missing: each *)
(* function of geminiService reads the key when it is called and throws    *)
(* before it creates a client.  Nothing is awaited before that throw, so   *)
(* the handler's catch block runs before any other event: the rejection is *)
(* the step right after the handler.  A call that found the key settles    *)
(* later, with a reply.                                                    *)

\* the exchange that never took place: thrown at "if (!apiKey)"
NoApiKey == [threw |-> TRUE, text |-> EmptyText, sent |-> FALSE]

\* detectItems without the key, called by handleStartDetection
detectItemsWithoutKey ==
    /\ lastOp.op = "handleStartDetection"
    /\ status = "DETECTING"
    /\ detectItemsSettles(Len(calls), NoApiKey)

\* analyzeMedia without the key, called by handleItemSelect from a button
\* or as the fallback of a detection that found nothing
analyzeMediaWithoutKey ==
    /\ \/ lastOp.op = "handleItemSelect" /\ status = "ANALYZING"
       \/ /\ lastOp.op = "DetectionResolved"
          /\ lastOp.arg.items = <<>>
          /\ HasPayload(lastOp.call.media)
    /\ analyzeMediaSettles(Len(calls), NoApiKey, now)

\* getChatResponse without the key, called by handleSendChat
getChatResponseWithoutKey ==
    /\ lastOp.op = "handleSendChat"
    /\ ChatSettledOn(Len(chatCalls), "ChatRejected", RepairApology, NoApiKey)

\* getSupportChatResponse without the key, called by handleSend
getSupportChatResponseWithoutKey ==
    /\ lastOp.op = "handleSend"
    /\ SupportSettledOn(Len(supportCalls), "SupportRejected", SupportApology, NoApiKey)

\* the messages sent in this specification: never blank, never while loading
CredentialChatInput == "How do I start?"

CredentialNext ==
    \/ handleFileSelect(ChatMedia)
    \/ calls = <<>> /\ handleStartDetection
    \/ \E item \in Items(detectedItems) : handleItemSelect(item)
    \/ handleReset
    \/ handleSelectAnother
    \/ \E item \in Items(history) : handleHistorySelect(item)
    \/ OpenSidebar
    \/ CloseSidebar
    \/ detectItemsWithoutKey
    \/ analyzeMediaWithoutKey
    \/ \E i \in 1..Len(calls), items \in {<<>>, <<Faucet>>} :
           detectItemsSettles(i, Returned(JsonText([items |-> items])))
    \/ \E i \in 1..Len(calls) : analyzeMediaSettles(i, Returned(JsonText(FullDiagnosis)), now)
    \/ ~isChatLoading /\ handleSendChat(CredentialChatInput)
    \/ getChatResponseWithoutKey
    \/ \E j \in 1..Len(chatCalls), text \in ChatReplyTexts : ChatResolved(j, text)
    \/ ~isLoading /\ handleSend(CredentialChatInput)
    \/ getSupportChatResponseWithoutKey
    \/ \E j \in 1..Len(supportCalls), text \in ChatReplyTexts : SupportResolved(j, text)

CredentialSpec == Init /\ [][CredentialNext]_vars

----------------------------------------------------------------------------
(* AnnotatedImage: the boxes drawn over the analysed image *)

\* box_2d coordinates are normalized to a grid of 1000
GridSize == 1000

\* a CSS length of 100% is the whole image
FullPercent == 100

\* how many grid lines the sampled coordinates are taken from
MaxSamples == 5

\* the quotient a / b, kept exact
Ratio(a, b) == [num |-> a, den |-> b]

Times(r, k) == [num |-> r.num * k, den |-> r.den]

Plus(p, q) == [num |-> p.num * q.den + q.num * p.den, den |-> p.den * q.den]

AtMost(p, q) == p.num * q.den <= q.num * p.den

Same(p, q) == p.num * q.den = q.num * p.den

\* mutant of BoxStyle: height and width measured from the image's origin
BoxStyle_ExtentFromOrigin(box_2d) ==
    LET ymin == box_2d[1]
        xmin == box_2d[2]
        ymax == box_2d[3]
        xmax == box_2d[4]
    IN  [top    |-> Times(Ratio(ymin, GridSize), FullPercent),
         left   |-> Times(Ratio(xmin, GridSize), FullPercent),
         height |-> Times(Ratio(ymax, GridSize), FullPercent),
         width  |-> Times(Ratio(xmax, GridSize), FullPercent)]

\* the style of one box, in percent of the image
BoxStyle(box_2d) ==
    LET ymin == box_2d[1]
        xmin == box_2d[2]
        ymax == box_2d[3]
        xmax == box_2d[4]
    IN  [top    |-> Times(Ratio(ymin, GridSize), FullPercent),
         left   |-> Times(Ratio(xmin, GridSize), FullPercent),
         height |-> Times(Ratio(ymax - ymin, GridSize), FullPercent),
         width  |-> Times(Ratio(xmax - xmin, GridSize), FullPercent)]

\* the annotations prop ResultDisplay passes on
AnnotationsOf(data) ==
    IF "annotations" \in DOMAIN data THEN data.annotations ELSE <<>>

\* the render of AnnotatedImage inside the mounted ResultDisplay: one styled
\* box per annotation, none without annotations
AnnotatedImage ==
    /\ Mounted(status, result)
    /\ result.imageUrl # ""
    /\ overlays' = [k \in 1..Len(AnnotationsOf(result)) |->
                       BoxStyle(AnnotationsOf(result)[k].box_2d)]
    /\ lastOp' = Op("AnnotatedImage", Null, AnnotationsOf(result))
    /\ UNCHANGED <<sessionVars, repairChatVars, supportChatVars, response, formatted>>

\* the sampled grid coordinates: both edges, their neighbours, evenly spaced lines
Coordinates ==
    {0, 1, GridSize - 1, GridSize}
        \cup {k * (GridSize \div MaxSamples) : k \in 0..MaxSamples}

Boxes == {<<ymin, xmin, ymax, xmax>> : ymin \in Coordinates, xmin \in Coordinates,
                                       ymax \in Coordinates, xmax \in Coordinates}

\* a stored diagnosis with one annotation
Annotated(box_2d) ==
    [title |-> "Fix the faucet", id |-> 1, timestamp |-> 0, imageUrl |-> "blob:a",
     annotations |-> <<[label |-> "crack", box_2d |-> box_2d]>>]

\* a stored diagnosis without annotations
Unannotated == [title |-> "Fix the faucet", id |-> 1, timestamp |-> 0, imageUrl |-> "blob:a"]

\* a diagnosis is on display, nothing of it rendered yet
AnnotationInit ==
    /\ status = "SUCCESS"
    /\ result \in {Unannotated} \cup {Annotated(b) : b \in Boxes}
    /\ error = NoError
    /\ history = <<result>>
    /\ isSidebarOpen = FALSE
    /\ currentMedia = Null
    /\ detectedItems = <<>>
    /\ calls = <<>>
    /\ now = 0
    /\ chatHistory = <<>>
    /\ isChatLoading = FALSE
    /\ chatCalls = <<>>
    /\ messages = <<WelcomeMessage>>
    /\ isLoading = FALSE
    /\ supportCalls = <<>>
    /\ created = <<result>>
    /\ response = Null
    /\ overlays = <<>>
    /\ formatted = Null
    /\ lastOp = Op("init", Null, Null)

AnnotationNext == AnnotatedImage

AnnotationSpec == AnnotationInit /\ [][AnnotationNext]_vars

----------------------------------------------------------------------------
(* formatText: the markup of the visual guide *)

\* the longest text formatted
MaxText == 5

\* the characters texts are made of: a letter and the four characters the
\* pattern of formatText mentions
Alphabet == {"a", "*", "[", "]", "\n"}

\* a text is the sequence of its characters
Texts == UNION {[1..n -> Alphabet] : n \in 0..MaxText}

Least(S) == CHOOSE i \in S : \A j \in S : i <= j

\* text.slice(a, -b)
Slice(text, a, b) ==
    IF Len(text) - b > a THEN SubSeq(text, a + 1, Len(text) - b) ELSE <<>>

StartsWith(text, prefix) ==
    Len(text) >= Len(prefix) /\ SubSeq(text, 1, Len(prefix)) = prefix

EndsWith(text, suffix) ==
    /\ Len(text) >= Len(suffix)
    /\ SubSeq(text, Len(text) - Len(suffix) + 1, Len(text)) = suffix

\* "." matches any character but a line break
Dots(text, from, to) == \A k \in from..to : text[k] # "\n"

\* the positions at which the closing delimiter of .*? can stand, for a
\* match that opened at i with a delimiter as long as close
Closings(text, i, close) ==
    {j \in (i + Len(close))..(Len(text) - Len(close) + 1) :
        /\ SubSeq(text, j, j + Len(close) - 1) = close
        /\ Dots(text, i + Len(close), j - 1)}

\* the last position of the match of (\n|\*\*.*?\*\*|\*.*?\*|\[.*?\]) that
\* starts at i, 0 when there is none: the alternatives in their order, each
\* .*? as short as it can be
MatchEnd(text, i) ==
    IF text[i] = "\n" THEN i
    ELSE IF StartsWith(SubSeq(text, i, Len(text)), <<"*", "*">>)
            /\ Closings(text, i, <<"*", "*">>) # {}
         THEN Least(Closings(text, i, <<"*", "*">>)) + 1
    ELSE IF text[i] = "*" /\ Closings(text, i, <<"*">>) # {}
         THEN Least(Closings(text, i, <<"*">>))
    ELSE IF text[i] = "[" /\ Closings(text, i, <<"]">>) # {}
         THEN Least(Closings(text, i, <<"]">>))
    ELSE 0

\* text.split(pattern) from position p on: the text before the leftmost
\* match, the match itself (it is captured), then the rest
RECURSIVE Split(_, _)
Split(text, p) ==
    LET starts == {i \in p..Len(text) : MatchEnd(text, i) # 0}
    IN  IF starts = {}
        THEN <<SubSeq(text, p, Len(text))>>
        ELSE LET i == Least(starts)
             IN  <<SubSeq(text, p, i - 1), SubSeq(text, i, MatchEnd(text, i))>>
                     \o Split(text, MatchEnd(text, i) + 1)

\* the element one part is rendered as
Element(part) ==
    IF part = <<"\n">> THEN [tag |-> "br", text |-> <<>>]
    ELSE IF StartsWith(part, <<"*", "*">>) /\ EndsWith(part, <<"*", "*">>)
         THEN [tag |-> "strong", text |-> Slice(part, 2, 2)]
    ELSE IF StartsWith(part, <<"*">>) /\ EndsWith(part, <<"*">>)
         THEN [tag |-> "em", text |-> Slice(part, 1, 1)]
    ELSE IF StartsWith(part, <<"[">>) /\ EndsWith(part, <<"]">>)
         THEN [tag |-> "highlight", text |-> Slice(part, 1, 1)]
    ELSE [tag |-> "span", text |-> part]

\* formatText(text): null for no text, else the array of elements
FormatText(text) ==
    IF text = <<>> THEN Null
    ELSE LET parts == Split(text, 1)
         IN  [elements |-> [k \in 1..Len(parts) |-> Element(parts[k])]]

\* a stored diagnosis with its visual guide
Guided(text) ==
    [title |-> "Fix the faucet", id |-> 1, timestamp |-> 0, imageUrl |-> "blob:a",
     visualGuide |-> text]

\* the render of the visual guide inside the mounted ResultDisplay
formatText ==
    /\ Mounted(status, result)
    /\ formatted' = FormatText(result.visualGuide)
    /\ lastOp' = Op("formatText", Null, result.visualGuide)
    /\ UNCHANGED <<sessionVars, repairChatVars, supportChatVars, response, overlays>>

\* a diagnosis is on display, its guide not rendered yet
FormatInit ==
    /\ status = "SUCCESS"
    /\ result \in {Guided(text) : text \in Texts}
    /\ error = NoError
    /\ history = <<result>>
    /\ isSidebarOpen = FALSE
    /\ currentMedia = Null
    /\ detectedItems = <<>>
    /\ calls = <<>>
    /\ now = 0
    /\ chatHistory = <<>>
    /\ isChatLoading = FALSE
    /\ chatCalls = <<>>
    /\ messages = <<WelcomeMessage>>
    /\ isLoading = FALSE
    /\ supportCalls = <<>>
    /\ created = <<result>>
    /\ response = Null
    /\ overlays = <<>>
    /\ formatted = Null
    /\ lastOp = Op("init", Null, Null)

FormatNext == formatText

FormatSpec == FormatInit /\ [][FormatNext]_vars

----------------------------------------------------------------------------
(* Properties *)

\* the outcome steps of the two gateway calls
OutcomeOps ==
    {"DetectionResolved", "DetectionRejected", "AnalysisResolved", "AnalysisRejected"}

\* the analyzeMedia calls among cs, in issue order
AnalyzeCalls(cs) == SelectSeq(cs, LAMBDA c : c.kind = "analyze")

\* the detectItems calls among cs, in issue order
DetectCalls(cs) == SelectSeq(cs, LAMBDA c : c.kind = "detect")

\* C1: every reset step ends in IDLE with no media, no detected items, no
\* result and no error, and leaves history exactly as it was.
C1_ResetClearsSession ==
    [][lastOp'.op = "handleReset" =>
          /\ status' = "IDLE"
          /\ currentMedia' = Null
          /\ detectedItems' = <<>>
          /\ result' = Null
          /\ error' = NoError
          /\ history' = history]_vars

\* a reset taken with a result in the history, items detected and a call
\* still outstanding
C1_Witness ==
    /\ lastOp.op = "handleReset"
    /\ status = "IDLE"
    /\ Len(history) > 0
    /\ Len(calls) > 0

\* C2: the outcome of a call that was outstanding when the user reset is
\* discarded: status, detected items, result, error and history stay as
\* they were just before the outcome arrived.
C2_StaleOutcomeDiscarded ==
    [][(lastOp'.op \in OutcomeOps /\ lastOp'.call.resetSince) =>
          UNCHANGED <<status, detectedItems, result, error, history>>]_vars

\* C3: at most one detection-or-diagnosis call is outstanding.
C3_AtMostOneCallOutstanding == Len(calls) <= 1

\* C4: a successful diagnosis ends in SUCCESS with the new result (the
\* response's body, the image of the analysed media) as current result and
\* history = [new result] followed by the previous history.
C4_DiagnosisSuccessPrepends ==
    [][lastOp'.op = "AnalysisResolved" =>
          /\ lastOp'.call.origin \in {"select", "fallback"}
          /\ status' = "SUCCESS"
          /\ result' # Null
          /\ result'.title = lastOp'.arg.title
          /\ result'.imageUrl = lastOp'.call.media.previewUrl
          /\ history' = <<result'>> \o history]_vars

\* a diagnosis started by the empty-detection fallback succeeded with one
\* result already in the history
C4_Witness ==
    /\ lastOp.op = "AnalysisResolved"
    /\ lastOp.call.origin = "fallback"
    /\ Len(history) = 2
    /\ history[1] = result

\* C5 (first part): confirmAnalyze in UPLOADED sets DETECTING and issues one
\* detection call carrying the captured media.
C5_ConfirmStartsDetection ==
    [][lastOp'.op = "handleStartDetection" =>
          /\ status' = "DETECTING"
          /\ Len(calls') = Len(calls) + 1
          /\ AnalyzeCalls(calls') = AnalyzeCalls(calls)
          /\ calls'[Len(calls')].kind = "detect"
          /\ calls'[Len(calls')].request =
                 [data |-> currentMedia.base64, mimeType |-> currentMedia.fileType,
                  text |-> DetectionPrompt]]_vars

\* C5 (second part): a detection that succeeds with a non-empty list sets
\* SELECTING, stores exactly the returned list and issues no diagnosis call.
C5_NonEmptyDetectionSelects ==
    [][(lastOp'.op = "DetectionResolved" /\ Len(lastOp'.arg.items) > 0) =>
          /\ status' = "SELECTING"
          /\ detectedItems' = lastOp'.arg.items
          /\ AnalyzeCalls(calls') = AnalyzeCalls(calls)]_vars

\* C5 (third part): while the machine waits in SELECTING, a diagnosis call
\* is issued only by the user's selection.
C5_NoDiagnosisUntilSelect ==
    [][(status = "SELECTING" /\ Len(AnalyzeCalls(calls')) > Len(AnalyzeCalls(calls)))
          => lastOp'.op = "handleItemSelect"]_vars

\* C5: confirmAnalyze starts one detection on the captured media; a
\* non-empty outcome leads to SELECTING with the returned list, and no
\* diagnosis call is issued until the user selects.
C5_DetectThenWaitForSelection ==
    [][/\ lastOp'.op = "handleStartDetection" =>
             /\ status' = "DETECTING"
             /\ Len(calls') = Len(calls) + 1
             /\ AnalyzeCalls(calls') = AnalyzeCalls(calls)
             /\ calls'[Len(calls')].kind = "detect"
             /\ calls'[Len(calls')].request =
                    [data |-> currentMedia.base64,
                     mimeType |-> currentMedia.fileType,
                     text |-> DetectionPrompt]
       /\ (lastOp'.op = "DetectionResolved" /\ Len(lastOp'.arg.items) > 0) =>
             /\ status' = "SELECTING"
             /\ detectedItems' = lastOp'.arg.items
             /\ AnalyzeCalls(calls') = AnalyzeCalls(calls)
       /\ (status = "SELECTING"
              /\ Len(AnalyzeCalls(calls')) > Len(AnalyzeCalls(calls)))
             => lastOp'.op = "handleItemSelect"]_vars

\* C6: a detection that succeeds with an empty list sets ANALYZING in the
\* same step and issues one diagnosis request with the payload and MIME type
\* of the detection request, no focus context and the generic prompt.
C6_EmptyDetectionIsNoFocusDiagnosis ==
    [][(lastOp'.op = "DetectionResolved" /\ Len(lastOp'.arg.items) = 0) =>
          /\ status' = "ANALYZING"
          /\ Len(calls') = Len(calls)
          /\ Len(AnalyzeCalls(calls')) = Len(AnalyzeCalls(calls)) + 1
          /\ calls'[Len(calls')].kind = "analyze"
          /\ calls'[Len(calls')].request =
                 [data |-> lastOp'.call.request.data,
                  mimeType |-> lastOp'.call.request.mimeType,
                  text |-> GenericPrompt]
          /\ calls'[Len(calls')].request.data = lastOp'.call.media.base64
          /\ calls'[Len(calls')].request.mimeType = lastOp'.call.media.fileType]_vars

\* an empty detection has just put the machine into ANALYZING with its
\* diagnosis call outstanding
C6_Witness ==
    /\ lastOp.op = "DetectionResolved"
    /\ lastOp.arg.items = <<>>
    /\ status = "ANALYZING"
    /\ Len(calls) > 0
    /\ calls[Len(calls)].origin = "fallback"

\* C7: in SELECTING the detected item list is non-empty.
C7_SelectingHasItems == status = "SELECTING" => Len(detectedItems) > 0

\* the selection screen re-entered through selectAnother
C7_Witness ==
    /\ status = "SELECTING"
    /\ lastOp.op = "handleSelectAnother"
    /\ Len(detectedItems) = 2

\* C8: a rejected detection ends in ERROR with the detection message, issues
\* no diagnosis call and leaves history alone; a reset taken in ERROR ends
\* in IDLE with no error.
C8_DetectionFailure ==
    [][/\ lastOp'.op = "DetectionRejected" =>
             /\ status' = "ERROR"
             /\ error' = DetectionErrorMessage
             /\ error' # AnalysisErrorMessage
             /\ AnalyzeCalls(calls') = AnalyzeCalls(calls)
             /\ Len(calls') = Len(calls) - 1
             /\ history' = history
       /\ (status = "ERROR" /\ lastOp'.op = "handleReset") =>
             /\ status' = "IDLE"
             /\ error' = NoError]_vars

\* the machine sits in ERROR after a rejected detection, history non-empty
C8_Witness ==
    /\ lastOp.op = "DetectionRejected"
    /\ status = "ERROR"
    /\ error = DetectionErrorMessage
    /\ Len(history) > 0

\* C9: a rejected diagnosis ends in ERROR with the diagnosis message and
\* leaves history and the current result alone, also when the diagnosis was
\* started by the empty-detection fallback.
C9_DiagnosisFailure ==
    [][lastOp'.op = "AnalysisRejected" =>
          /\ status' = "ERROR"
          /\ error' = AnalysisErrorMessage
          /\ error' # DetectionErrorMessage
          /\ history' = history
          /\ result' = result]_vars

\* the diagnosis started by the fallback was rejected
C9_Witness ==
    /\ lastOp.op = "AnalysisRejected"
    /\ lastOp.call.origin = "fallback"
    /\ status = "ERROR"
    /\ error = AnalysisErrorMessage

\* C10: selectAnother is taken only in SUCCESS with a non-empty detected
\* list; it ends in SELECTING with the same items and media, no current
\* result, the same history and no call issued.
C10_SelectAnother ==
    [][lastOp'.op = "handleSelectAnother" =>
          /\ status = "SUCCESS"
          /\ Len(detectedItems) > 0
          /\ status' = "SELECTING"
          /\ detectedItems' = detectedItems
          /\ currentMedia' = currentMedia
          /\ result' = Null
          /\ history' = history
          /\ calls' = calls]_vars

\* selectAnother taken after a diagnosis of the captured media
C10_Witness ==
    /\ lastOp.op = "handleSelectAnother"
    /\ status = "SELECTING"
    /\ Len(detectedItems) > 0
    /\ currentMedia # Null
    /\ Len(history) > 0


\* C11: selecting a history entry is possible in every status; the step ends
\* in SUCCESS with that entry as the result, leaves history (contents and
\* order), the captured media and the detected items as they were, and
\* issues no detectItems or analyzeMedia call.
C11_HistorySelectFrame ==
    [][lastOp'.op = "handleHistorySelect" =>
          /\ lastOp'.arg \in Items(history)
          /\ status' = "SUCCESS"
          /\ result' = lastOp'.arg
          /\ history' = history
          /\ currentMedia' = currentMedia
          /\ detectedItems' = detectedItems
          /\ calls' = calls]_vars

\* an entry was selected while a diagnosis call was outstanding, with media
\* captured and items detected
C11_Witness ==
    /\ lastOp.op = "handleHistorySelect"
    /\ result \in Items(history)
    /\ \E i \in 1..Len(calls) : calls[i].kind = "analyze"
    /\ currentMedia # Null
    /\ Len(detectedItems) > 0

\* C12: history round trip.  Every record a successful diagnosis created
\* stays selectable in history with the field values it was created with,
\* and selecting an entry presents a result equal, field by field, to the
\* record that was created with that id.
C12_HistoryRoundTrip ==
    [][/\ \A k \in 1..Len(created') : created'[k] \in Items(history')
       /\ lastOp'.op = "handleHistorySelect" =>
              \E k \in 1..Len(created) :
                  /\ created[k].id = lastOp'.arg.id
                  /\ DOMAIN result' = DOMAIN created[k]
                  /\ \A f \in DOMAIN created[k] : result'[f] = created[k][f]]_vars

\* the older of two diagnoses, created at an earlier time than now, was
\* selected again after the newer one had been presented
C12_Witness ==
    /\ lastOp.op = "handleHistorySelect"
    /\ Len(created) = 2
    /\ result = created[1]
    /\ result.timestamp < now

\* C13: history has one entry per successfully completed diagnosis call,
\* newest first with timestamps non-increasing from head to tail.  A step
\* either leaves history as it is or is a diagnosis success that puts its one
\* new record in front of the unchanged old entries.
C13_HistoryLog ==
    [][/\ \/ history' = history /\ lastOp'.op # "AnalysisResolved"
          \/ /\ lastOp'.op = "AnalysisResolved"
             /\ Len(history') = Len(history) + 1
             /\ Tail(history') = history
             /\ Head(history') = result'
       /\ Len(history') = Len(created')
       /\ \A k \in 1..(Len(history') - 1) :
              history'[k].timestamp >= history'[k + 1].timestamp]_vars

\* capture, confirm, detection returning the Faucet, select it, diagnosis
\* success: SUCCESS with a history of length 1
C13_Witness ==
    /\ lastOp.op = "AnalysisResolved"
    /\ lastOp.call.origin = "select"
    /\ ~lastOp.call.resetSince
    /\ detectedItems = <<Faucet>>
    /\ status = "SUCCESS"
    /\ Len(history) = 1
    /\ result = history[1]

\* C18: a capture whose media has an empty payload changes nothing (status,
\* media, items, result, error, history) and issues no call; a capture with
\* a payload stores the media, sets UPLOADED and clears the error, also
\* without a call.
C18_Capture ==
    [][lastOp'.op = "handleFileSelect" =>
          /\ calls' = calls
          /\ IF lastOp'.arg.base64 = ""
             THEN UNCHANGED <<status, currentMedia, detectedItems, result,
                              error, history>>
             ELSE /\ currentMedia' = lastOp'.arg
                  /\ status' = "UPLOADED"
                  /\ error' = NoError]_vars

\* an empty capture arrived while another media was already captured and a
\* call of an earlier session was still outstanding
C18_Witness ==
    /\ lastOp.op = "handleFileSelect"
    /\ lastOp.arg.base64 = ""
    /\ status = "UPLOADED"
    /\ currentMedia # Null
    /\ currentMedia # lastOp.arg
    /\ Len(calls) > 0

\* C19: detectItems does not coerce a malformed response.  When the
\* exchange throws, returns empty text, returns text that is not JSON, or
\* returns a document without the items field, the outcome step is the
\* failure one and the status becomes ERROR.
C19_MalformedDetectionFails ==
    [][(/\ lastOp'.op \in {"DetectionResolved", "DetectionRejected"}
        /\ \/ response'.threw
           \/ response'.text = EmptyText
           \/ ~Parseable(response'.text)
           \/ "items" \notin DOMAIN response'.text.json)
       => /\ lastOp'.op = "DetectionRejected"
          /\ status' = "ERROR"]_vars

\* C20: every diagnosis that is presented or stored in history has all the
\* required fields of the response schema.
C20_RequiredFieldsPresent ==
    /\ \A k \in 1..Len(history) : RequiredFields \subseteq DOMAIN history[k]
    /\ status = "SUCCESS" /\ result # Null => RequiredFields \subseteq DOMAIN result

\* C14: whenever a step makes a diagnosis with a different id the active
\* result (a new diagnosis, or another history entry, the result view staying
\* mounted or not), the repair-chat transcript is empty right after the step
\* and the support-chat transcript is what it was before.
C14_NewResultEmptiesRepairChat ==
    [][(/\ result' # Null
        /\ result = Null \/ result'.id # result.id)
       => /\ chatHistory' = <<>>
          /\ messages' = messages]_vars

\* another history entry was selected while the result view was mounted and
\* waiting for a reply (so its transcript was not empty), with a support
\* transcript beyond the welcome message
C14_Witness ==
    /\ lastOp.op = "handleHistorySelect"
    /\ isChatLoading
    /\ \E j \in 1..Len(chatCalls) : chatCalls[j].live /\ chatCalls[j].data # result.id
    /\ chatHistory = <<>>
    /\ Len(messages) > 1

\* C15: when the call of a chat fails, the step appends exactly one apology
\* of the model to that chat's transcript, right after the user's message
\* the call was sent for, clears that chat's loading flag, and leaves
\* status, result, error and history unchanged.  (For the repair chat: when
\* the view that sent the message is still mounted.)
C15_ChatFailureAppendsApology ==
    [][/\ (lastOp'.op = "ChatRejected" /\ lastOp'.call.live) =>
              /\ chatHistory # <<>>
              /\ chatHistory[Len(chatHistory)] =
                     [role |-> "user", text |-> lastOp'.call.message]
              /\ chatHistory' =
                     Append(chatHistory, [role |-> "model", text |-> RepairApology])
              /\ ~isChatLoading'
              /\ UNCHANGED <<status, result, error, history>>
       /\ lastOp'.op = "SupportRejected" =>
              /\ messages[Len(messages)] =
                     [role |-> "user", text |-> lastOp'.call.message]
              /\ messages' =
                     Append(messages, [role |-> "model", text |-> SupportApology])
              /\ ~isLoading'
              /\ UNCHANGED <<status, result, error, history>>]_vars

\* C16: each chat has at most one call outstanding, the repair chat also
\* after the active diagnosis changed and after the result view was left and
\* entered again while a reply was pending.
C16_OneOutstandingCallPerChat ==
    /\ Len(chatCalls) <= 1
    /\ Len(supportCalls) <= 1

\* C17: the two chats are independent.  Whether a send issues a call
\* depends only on its own input and its own loading flag, not on pending
\* calls of the other chat or of the session; and a step of one chat (a
\* send, a reply, an apology) leaves the other chat's transcript, flag and
\* calls as they were.
C17_ChatsIndependent ==
    [][/\ lastOp'.op = "handleSend" =>
              /\ IF Blank(lastOp'.arg) \/ isLoading
                 THEN UNCHANGED <<messages, isLoading, supportCalls>>
                 ELSE /\ messages' =
                             Append(messages, [role |-> "user", text |-> lastOp'.arg])
                      /\ supportCalls' =
                             Append(supportCalls, SupportCall(messages, lastOp'.arg))
              /\ UNCHANGED <<chatHistory, isChatLoading, chatCalls, calls>>
       /\ lastOp'.op = "handleSendChat" =>
              /\ IF Blank(lastOp'.arg) \/ isChatLoading
                 THEN UNCHANGED <<chatHistory, isChatLoading, chatCalls>>
                 ELSE /\ chatHistory' =
                             Append(chatHistory, [role |-> "user", text |-> lastOp'.arg])
                      /\ chatCalls' =
                             Append(chatCalls, ChatCall(result.id, chatHistory, lastOp'.arg))
              /\ UNCHANGED <<messages, isLoading, supportCalls, calls>>
       /\ lastOp'.op \in {"SupportResolved", "SupportRejected"} =>
              UNCHANGED <<chatHistory, isChatLoading, chatCalls, calls>>
       /\ lastOp'.op \in {"ChatResolved", "ChatRejected"} =>
              UNCHANGED <<messages, isLoading, supportCalls, calls>>]_vars

\* a support message was sent, and its call issued, while a repair-chat
\* reply and a call of the session were pending
C17_Witness ==
    /\ lastOp.op = "handleSend"
    /\ Len(supportCalls) = 1
    /\ isChatLoading
    /\ \E j \in 1..Len(chatCalls) : chatCalls[j].live
    /\ Len(calls) > 0

\* C21: the record a successful diagnosis creates has an id no entry of
\* history had before, the time of creation as timestamp and the image of
\* the analysed media, whatever id, timestamp or imageUrl the response
\* carried; the ids of the entries of history are pairwise distinct.
C21_LocalIdAndTimestamp ==
    [][/\ lastOp'.op = "AnalysisResolved" =>
              /\ \A k \in 1..Len(history) : history[k].id # result'.id
              /\ result'.timestamp = now'
              /\ result'.imageUrl = lastOp'.call.media.previewUrl
              /\ result' = Head(history')
       /\ \A k, l \in 1..Len(history') :
              history'[k].id = history'[l].id => k = l]_vars

\* the response of the second diagnosis carried the id of the first entry, a
\* timestamp and an image reference of its own
C21_Witness ==
    /\ lastOp.op = "AnalysisResolved"
    /\ lastOp.arg = StampedDiagnosis
    /\ Len(history) = 2
    /\ history[2].id = lastOp.arg.id
    /\ result = history[1]
    /\ result.timestamp # lastOp.arg.timestamp
    /\ result.imageUrl # lastOp.arg.imageUrl

\* C23: a detectItems or analyzeMedia call is issued only by a step that
\* enters DETECTING (one detectItems call) or ANALYZING (one analyzeMedia
\* call); capture, clear, reset, select-another and history-select leave the
\* outstanding requests exactly as they were.
C23_CallsOnlyOnDetectingAndAnalyzing ==
    [][LET Requests(cs) == [k \in 1..Len(cs) |-> cs[k].request]
           newest == calls'[Len(calls')]
       IN  /\ lastOp'.op \in {"handleFileSelect", "handleClearFile", "handleReset",
                              "handleSelectAnother", "handleHistorySelect"}
                  => Requests(calls') = Requests(calls)
           /\ Len(calls') > Len(calls) =>
                  /\ Len(calls') = Len(calls) + 1
                  /\ \/ /\ lastOp'.op = "handleStartDetection"
                        /\ status' = "DETECTING"
                        /\ newest.kind = "detect"
                     \/ /\ lastOp'.op = "handleItemSelect"
                        /\ status' = "ANALYZING"
                        /\ newest.kind = "analyze"
           /\ (Len(calls') = Len(calls) /\ Requests(calls') # Requests(calls)) =>
                  /\ lastOp'.op = "DetectionResolved"
                  /\ status' = "ANALYZING"
                  /\ newest.kind = "analyze"
                  /\ DetectCalls(calls') # DetectCalls(calls)]_vars

\* select-another was taken while a call of an earlier session was still
\* outstanding
C23_Witness ==
    /\ lastOp.op = "handleSelectAnother"
    /\ status = "SELECTING"
    /\ Len(calls) > 0

\* C24: a step that changes the status to ERROR starts in DETECTING when a
\* detection failed and in ANALYZING when a diagnosis failed; ERROR is never
\* entered from IDLE, UPLOADED, SELECTING or SUCCESS.
C24_FailedOnlyFromDetectingOrAnalyzing ==
    [][(status' = "ERROR" /\ status # "ERROR") =>
          \/ status = "DETECTING" /\ lastOp'.op = "DetectionRejected"
          \/ status = "ANALYZING" /\ lastOp'.op = "AnalysisRejected"]_vars
\* C28: wherever handleClearFile is offered (IDLE or UPLOADED) it leaves the
\* session exactly where handleReset would: status IDLE, no media, no
\* detected items, no result, no error, and the history untouched
C28_ClearFileEqualsReset ==
    [][lastOp'.op = "handleClearFile" =>
          /\ status \in {"IDLE", "UPLOADED"}
          /\ status' = "IDLE"
          /\ currentMedia' = Null
          /\ detectedItems' = <<>>
          /\ result' = Null
          /\ error' = NoError
          /\ history' = history]_vars

\* a file is cleared while the history holds an entry and a call is outstanding
C28_Witness ==
    /\ lastOp.op = "handleClearFile"
    /\ Len(history) > 0
    /\ calls # <<>>

\* C30: when handleHistorySelect was performed with a detection or analysis
\* call outstanding, the outcome of that call arriving next leaves the
\* presented result, the status and the error as the selection set them
C30_LateOutcomeKeepsHistorySelection ==
    [][(lastOp.op = "handleHistorySelect" /\ lastOp'.op \in OutcomeOps) =>
          /\ result' = result
          /\ status' = status
          /\ error' = error]_vars

\* C27: the SupportChat transcript only grows: every step keeps the messages
\* it had as a prefix of the messages it has afterwards, and a step of the
\* session or of the repair chat leaves the transcript unchanged
C27_SupportTranscriptAppendOnly ==
    [][/\ Len(messages') >= Len(messages)
       /\ SubSeq(messages', 1, Len(messages)) = messages
       /\ lastOp'.op \notin {"handleSend", "SupportResolved", "SupportRejected"}
              => messages' = messages]_vars

\* a stored diagnosis is selected after a support exchange and after the
\* repair chat was used: the repair chat is empty, the support chat is whole
C27_Witness ==
    /\ lastOp.op = "handleHistorySelect"
    /\ Len(messages) = 3
    /\ messages[1] = WelcomeMessage
    /\ messages[3].role = "model"
    /\ chatHistory = <<>>
    /\ chatCalls # <<>>

\* C29: the chatHistory of the mounted ResultDisplay holds only turns of the
\* current diagnosis: the reply or apology to a message sent for another
\* diagnosis leaves it unchanged, and a transcript that is not empty begins
\* with a user turn
C29_RepairChatScopedToDiagnosis ==
    [][/\ (/\ lastOp'.op \in {"ChatResolved", "ChatRejected"}
           /\ lastOp'.call.live
           /\ lastOp'.call.data # result.id) => chatHistory' = chatHistory
       /\ chatHistory' # <<>> => chatHistory'[1].role = "user"]_vars

\* a box inside the grid with its corners in order
ValidBox(b) ==
    /\ 0 <= b[1] /\ b[1] <= b[3] /\ b[3] <= GridSize
    /\ 0 <= b[2] /\ b[2] <= b[4] /\ b[4] <= GridSize

Source(element) ==
    CASE element.tag = "br" -> <<"\n">>
      [] element.tag = "strong" -> <<"*", "*">> \o element.text \o <<"*", "*">>
      [] element.tag = "em" -> <<"*">> \o element.text \o <<"*">>
      [] element.tag = "highlight" -> <<"[">> \o element.text \o <<"]">>
      [] OTHER -> element.text

RECURSIVE Sources(_)
Sources(elements) ==
    IF elements = <<>> THEN <<>>
    ELSE Source(Head(elements)) \o Sources(Tail(elements))

\* C26: formatText removes nothing but the delimiters of pairs: putting each
\* rendered element back between the delimiters of its kind gives the text,
\* so a lone '*', an unclosed '**' and an unclosed '[' are rendered as they
\* are written
C26_OnlyPairedDelimitersRemoved ==
    (lastOp.op = "formatText" /\ formatted # Null) =>
        Sources(formatted.elements) = result.visualGuide

\* C25: a call made while the key is missing fails alone.  detectItems
\* leaves status ERROR with the detection message, analyzeMedia leaves
\* status ERROR with the analysis message, and neither touches the result,
\* the history, the media or the other outstanding calls;
\* getChatResponse and getSupportChatResponse add their apology right after
\* the user's message, clear their loading flag and leave the session
\* alone; handleReset after such a failure gives IDLE with no media, no
\* items, no result and no error
C25_MissingKeyFailsOnlyTheCall ==
    [][/\ response' = NoApiKey =>
              lastOp'.op \in {"DetectionRejected", "AnalysisRejected",
                              "ChatRejected", "SupportRejected"}
       /\ (response' = NoApiKey /\ lastOp'.op \in {"DetectionRejected", "AnalysisRejected"}) =>
              /\ status' = "ERROR"
              /\ error' = IF lastOp'.op = "DetectionRejected"
                          THEN DetectionErrorMessage ELSE AnalysisErrorMessage
              /\ calls' = SubSeq(calls, 1, Len(calls) - 1)
              /\ UNCHANGED <<result, history, currentMedia, detectedItems>>
              /\ UNCHANGED <<messages, isLoading, supportCalls>>
       /\ (response' = NoApiKey /\ lastOp'.op = "ChatRejected") =>
              /\ chatHistory # <<>>
              /\ chatHistory[Len(chatHistory)] = [role |-> "user", text |-> lastOp'.call.message]
              /\ chatHistory' = Append(chatHistory, [role |-> "model", text |-> RepairApology])
              /\ ~isChatLoading'
              /\ UNCHANGED <<status, result, error, history, currentMedia, detectedItems, calls>>
              /\ UNCHANGED <<messages, isLoading, supportCalls>>
       /\ (response' = NoApiKey /\ lastOp'.op = "SupportRejected") =>
              /\ messages[Len(messages)] = [role |-> "user", text |-> lastOp'.call.message]
              /\ messages' = Append(messages, [role |-> "model", text |-> SupportApology])
              /\ ~isLoading'
              /\ UNCHANGED <<status, result, error, history, currentMedia, detectedItems, calls>>
              /\ UNCHANGED <<chatHistory, isChatLoading, chatCalls>>
       /\ (response = NoApiKey /\ lastOp'.op = "handleReset") =>
              /\ status' = "IDLE"
              /\ error' = NoError
              /\ result' = Null
              /\ currentMedia' = Null
              /\ detectedItems' = <<>>
              /\ history' = history]_vars

\* after a completed diagnosis and a support message that failed for the
\* missing key, a new detection fails for the missing key
C25_Witness ==
    /\ response = NoApiKey
    /\ lastOp.op = "DetectionRejected"
    /\ status = "ERROR"
    /\ Len(history) = 1
    /\ messages[Len(messages)].text = SupportApology

\* C36: whenever status is SUCCESS a result is present, so ResultDisplay is
\* rendered; a step that makes status SUCCESS sets a result, and no step
\* clears the result and leaves status SUCCESS
C36_PresentingHasResult ==
    [][/\ status' = "SUCCESS" => result' # Null
       /\ (status' = "SUCCESS" /\ status # "SUCCESS") =>
              \/ lastOp'.op = "AnalysisResolved" /\ result' = Head(history')
              \/ lastOp'.op = "handleHistorySelect" /\ result' = lastOp'.arg
       /\ (status = "SUCCESS" /\ result' = Null) => status' # "SUCCESS"]_vars

\* a stored diagnosis is presented from the history while a call is outstanding
C36_Witness ==
    /\ status = "SUCCESS"
    /\ lastOp.op = "handleHistorySelect"
    /\ result = lastOp.arg
    /\ calls # <<>>

\* C37: while status is UPLOADED, DETECTING, SELECTING or ANALYZING the
\* captured media is present and has a payload, so ItemSelector is
\* rendered in SELECTING and handleItemSelect starts an analyzeMedia call
C37_MediaPresentWhileWorking ==
    status \in {"UPLOADED", "DETECTING", "SELECTING", "ANALYZING"} =>
        (currentMedia # Null /\ HasPayload(currentMedia))

\* C38: error is set exactly while status is ERROR
C38_ErrorExactlyWhenFailed ==
    (status = "ERROR") <=> (error # NoError)

\* C39: a result is present only while status is SUCCESS
C39_ResultOnlyWhilePresenting ==
    status # "SUCCESS" => result = Null

\* C31: a list of detected items is installed only by the detectItems call
\* made on the media that is captured at that moment, with no reset since
\* the call was made; a step that changes the captured media leaves no
\* detected items; so handleItemSelect never sends one media with an item
\* detected in another
C31_DetectedItemsOfCurrentMedia ==
    [][/\ (lastOp'.op = "DetectionResolved" /\ Len(lastOp'.arg.items) > 0) =>
              /\ lastOp'.call.media = currentMedia
              /\ ~lastOp'.call.resetSince
       /\ currentMedia' # currentMedia => detectedItems' = <<>>]_vars

\* C32: an analyzeMedia call started for a chosen item carries the focused
\* prompt built on the item's name, " - " and the item's description; a
\* call started with no item carries the generic prompt; the payload and
\* the type are those of the handler's media
C32_FocusContextOfChosenItem ==
    [][LET newest == calls'[Len(calls')]
       IN  /\ (lastOp'.op = "handleItemSelect" /\ Len(calls') = Len(calls) + 1) =>
                  /\ newest.kind = "analyze"
                  /\ newest.request.text =
                         FocusedPrompt(lastOp'.arg.name \o " - " \o lastOp'.arg.description)
                  /\ newest.request.text # GenericPrompt
                  /\ newest.request.data = currentMedia.base64
                  /\ newest.request.mimeType = currentMedia.fileType
           /\ (/\ lastOp'.op = "DetectionResolved"
               /\ lastOp'.arg.items = <<>>
               /\ Len(calls') = Len(calls)) =>
                  /\ newest.kind = "analyze"
                  /\ newest.request.text = GenericPrompt]_vars

\* the second detected item was chosen and its call is outstanding
C32_Witness ==
    /\ lastOp.op = "handleItemSelect"
    /\ lastOp.arg = Hinge
    /\ status = "ANALYZING"
    /\ calls # <<>>
    /\ calls[Len(calls)].request.text = FocusedPrompt("Hinge - loose")

\* C33: a send with a message that is not blank, made while the chat is not
\* loading, submits the transcript as it was and the new message apart from
\* it; when that call completes the transcript is the submitted one, the
\* user's message and one model message; a send that is blank or made while
\* loading changes nothing.  For the repair chat and for the support chat.
C33_ChatSendSubmitsTranscript ==
    [][/\ lastOp'.op = "handleSendChat" =>
              IF Blank(lastOp'.arg) \/ isChatLoading
              THEN UNCHANGED <<chatHistory, isChatLoading, chatCalls>>
              ELSE /\ chatCalls' = Append(chatCalls, chatCalls'[Len(chatCalls')])
                   /\ chatCalls'[Len(chatCalls')].history = chatHistory
                   /\ chatCalls'[Len(chatCalls')].message = lastOp'.arg
                   /\ chatHistory' = Append(chatHistory, [role |-> "user", text |-> lastOp'.arg])
       /\ (lastOp'.op \in {"ChatResolved", "ChatRejected"} /\ lastOp'.call.live) =>
              chatHistory' = lastOp'.call.history
                                 \o <<[role |-> "user", text |-> lastOp'.call.message],
                                      [role |-> "model", text |-> lastOp'.arg]>>
       /\ lastOp'.op = "handleSend" =>
              IF Blank(lastOp'.arg) \/ isLoading
              THEN UNCHANGED <<messages, isLoading, supportCalls>>
              ELSE /\ supportCalls' = Append(supportCalls, supportCalls'[Len(supportCalls')])
                   /\ supportCalls'[Len(supportCalls')].history = messages
                   /\ supportCalls'[Len(supportCalls')].message = lastOp'.arg
                   /\ messages' = Append(messages, [role |-> "user", text |-> lastOp'.arg])
       /\ lastOp'.op \in {"SupportResolved", "SupportRejected"} =>
              messages' = lastOp'.call.history
                              \o <<[role |-> "user", text |-> lastOp'.call.message],
                                   [role |-> "model", text |-> lastOp'.arg]>>]_vars

\* which span begins at position i, scanning as the claim describes: a line
\* break, a '**' pair before a '*' pair, then a '[' ']' pair
PairKind(text, i) ==
    IF text[i] = "\n" THEN "br"
    ELSE IF StartsWith(SubSeq(text, i, Len(text)), <<"*", "*">>)
            /\ Closings(text, i, <<"*", "*">>) # {}
         THEN "strong"
    ELSE IF text[i] = "*" /\ Closings(text, i, <<"*">>) # {} THEN "em"
    ELSE IF text[i] = "[" /\ Closings(text, i, <<"]">>) # {} THEN "highlight"
    ELSE "none"

\* the span that begins at i: the text between its delimiters, as written
PairSpan(text, i) ==
    LET kind == PairKind(text, i)
        width == IF kind = "strong" THEN 2 ELSE 1
        close == IF kind = "strong" THEN <<"*", "*">>
                 ELSE IF kind = "em" THEN <<"*">> ELSE <<"]">>
    IN  IF kind = "br" THEN [tag |-> "br", text |-> <<>>, next |-> i + 1]
        ELSE LET j == Least(Closings(text, i, close))
             IN  [tag |-> kind, text |-> SubSeq(text, i + width, j - 1), next |-> j + width]

Plain(text, from, to) ==
    IF from > to THEN <<>> ELSE <<[tag |-> "span", text |-> SubSeq(text, from, to)]>>

\* the spans of a text from position p on: plain text up to the earliest
\* pair, the pair's span, then the rest
RECURSIVE Spans(_, _)
Spans(text, p) ==
    LET starts == {i \in p..Len(text) : PairKind(text, i) # "none"}
    IN  IF starts = {} THEN Plain(text, p, Len(text))
        ELSE LET i == Least(starts)
                 s == PairSpan(text, i)
             IN  Plain(text, p, i - 1) \o <<[tag |-> s.tag, text |-> s.text]>>
                     \o Spans(text, s.next)

RECURSIVE Visible(_)
Visible(elements) ==
    IF elements = <<>> THEN <<>>
    ELSE IF Head(elements) = [tag |-> "span", text |-> <<>>] THEN Visible(Tail(elements))
    ELSE <<Head(elements)>> \o Visible(Tail(elements))

\* C34: formatText scans from the left and does not nest: the pair that
\* starts earliest wins, '**' before '*' at the same place; the text between
\* a pair is one span, rendered as written; every character outside the
\* pairs is rendered as plain text, in the order of the input
C34_LeftToRightNonNesting ==
    (lastOp.op = "formatText" /\ formatted # Null) =>
        Visible(formatted.elements) = Spans(result.visualGuide, 1)

\* C35: whatever the corners of a box with coordinates in 0..1000, the
\* rendered box has no negative height and no negative width
C35_NoNegativeExtent ==
    \A k \in 1..Len(overlays) :
        /\ AtMost(Ratio(0, 1), overlays[k].height)
        /\ AtMost(Ratio(0, 1), overlays[k].width)

\* C40: DETECTING and ANALYZING do not last.  When every call that was made
\* settles, DETECTING leads to SELECTING, SUCCESS or ERROR and ANALYZING
\* leads to SUCCESS or ERROR, unless the user leaves by a reset (IDLE); and
\* with no call outstanding the status is neither DETECTING nor ANALYZING
C40_DetectingAndAnalyzingAreTransient ==
    /\ [](calls = <<>> => status \notin {"DETECTING", "ANALYZING"})
    /\ (status = "DETECTING") ~> (status \in {"SELECTING", "SUCCESS", "ERROR", "IDLE"})
    /\ (status = "ANALYZING") ~> (status \in {"SUCCESS", "ERROR", "IDLE"})

\* a detection that found nothing went on to a diagnosis, which was
\* presented, and no call is left
C40_Witness ==
    /\ lastOp.op = "AnalysisResolved"
    /\ lastOp.call.origin = "fallback"
    /\ status = "SUCCESS"
    /\ calls = <<>>

====
